---------------------------- MODULE Spec2Model ----------------------------
(***************************************************************************)
(* A model of src/api/app.py: a Flask application with one GET endpoint    *)
(* (/api/health) and six POST endpoints (/api/buffer, /api/simplify,       *)
(* /api/intersection, /api/analyze, /api/convert, /api/voronoi).           *)
(*                                                                         *)
(* Every handler body is an operator that either returns a response or     *)
(* raises; TryExcept is the `try: ... except Exception as e:` frame that   *)
(* every POST handler wraps around its body.                               *)
(*                                                                         *)
(* Two specifications are given over the same variables:                   *)
(*   Spec         requests are served one at a time, each action is one    *)
(*                whole handler; the filesystem persists between requests. *)
(*   SpecConvert  /api/convert requests are served concurrently by the     *)
(*                hosting runtime's worker pool: each in-flight request    *)
(*                advances one filesystem call at a time.                  *)
(***************************************************************************)
EXTENDS Integers, Sequences, FiniteSets, TLC

VARIABLES
    last,    \* the request served last and the response it got (Spec)
    dirs,    \* names of the temporary directories present under /tmp
    files,   \* the regular files present: a set of [path, content]
    conv     \* the /api/convert requests in flight or done (SpecConvert)

vars == <<last, dirs, files, conv>>

(***************************************************************************)
(* Bounds of the model.                                                    *)
(***************************************************************************)
MaxRequests == 2   \* /api/convert requests (and temporary directories)
MaxPoints == 4     \* points in one /api/voronoi request
MaxFeatures == 3   \* features in one /api/analyze request

(***************************************************************************)
(* Responses.  message is the text as a tuple of strings (<<>>: the        *)
(* payload has no message key); data is the payload besides status and     *)
(* message.                                                                *)
(***************************************************************************)
NoData == [kind |-> "none"]

Response(code, status, message, data) ==
    [code |-> code, status |-> status, message |-> message, data |-> data]

\* What a handler body comes to: a returned response, or a raised exception.
Return(code, status, message, data) ==
    [raised |-> FALSE, text |-> <<>>,
     resp |-> Response(code, status, message, data)]

Raise(text) ==
    [raised |-> TRUE, text |-> text, resp |-> Response(0, "", <<>>, NoData)]

\* jsonify({...}) returned without a status code: HTTP 200.
Success(data) == Return(200, "success", <<>>, data)

\* A handler without the except clause: Flask answers an exception that
\* leaves the view function with 500 Internal Server Error.
TryExceptEscapes(r) ==
    IF r.raised
    THEN Response(500, "", <<"Internal Server Error">>, NoData)
    ELSE r.resp

\* try: <body> except Exception as e:
\*     return jsonify({"status": "error", "message": str(e)}), 400
TryExcept(r) ==
    IF r.raised
    THEN Response(400, "error", r.text, NoData)
    ELSE r.resp

(***************************************************************************)
(* Exact arithmetic.  A planar point is a homogeneous triple <<X, Y, W>>   *)
(* with W > 0 standing for (X/W, Y/W), in lowest terms.                    *)
(***************************************************************************)
Abs(n) == IF n < 0 THEN -n ELSE n

RECURSIVE GCD(_, _)
GCD(a, b) == IF b = 0 THEN Abs(a) ELSE GCD(b, a % b)

Norm(p) ==
    LET g == GCD(GCD(Abs(p[1]), Abs(p[2])), Abs(p[3]))
        s == IF p[3] < 0 THEN -1 ELSE 1
    IN  <<(s * p[1]) \div g, (s * p[2]) \div g, (s * p[3]) \div g>>

(***************************************************************************)
(* JSON request bodies.  request.json raises on a body that is not JSON    *)
(* (a werkzeug HTTPException, which is an Exception); a JSON null makes    *)
(* data None, and data.get then raises AttributeError.                     *)
(***************************************************************************)
Bodies == {"object", "null", "malformed"}

JsonRaises(body) == body # "object"

JsonError(body) ==
    IF body = "malformed"
    THEN <<"400 Bad Request: Failed to decode JSON object">>
    ELSE <<"'NoneType' object has no attribute 'get'">>

(***************************************************************************)
(* Geometries.  A GeoJSON geometry payload is [type, coordinates], the     *)
(* coordinates a sequence of integer <<lon, lat>> pairs (a Point has one,  *)
(* a Polygon its exterior ring); type "None" is a key the request lacks.   *)
(* A geometry object has the same shape with homogeneous points.           *)
(***************************************************************************)
Missing == [type |-> "None", coordinates |-> <<>>]

GeoPoint(x, y) == [type |-> "Point", coordinates |-> <<<<x, y>>>>]

GeoLine(cs) == [type |-> "LineString", coordinates |-> cs]

\* The axis-parallel rectangle [x0, x1] x [y0, y1], counter-clockwise.
GeoRect(x0, y0, x1, y1) ==
    [type |-> "Polygon",
     coordinates |-> <<<<x0, y0>>, <<x1, y0>>, <<x1, y1>>, <<x0, y1>>, <<x0, y0>>>>]

EmptyPolygon == [type |-> "Polygon", coordinates |-> <<>>]

GeometryTypes == {"Point", "LineString", "Polygon"}

\* shape(geojson) raises on None, on an unknown type, on a LineString of one
\* point and on a ring of fewer than four; no coordinates make an empty
\* geometry.
ShapeRaises(g) ==
    \/ g.type \notin GeometryTypes
    \/ g.type = "Point" /\ Len(g.coordinates) > 1
    \/ g.type = "LineString" /\ Len(g.coordinates) = 1
    \/ g.type = "Polygon" /\ Len(g.coordinates) \in 1..3

ShapeError(g) ==
    IF g.type = "None" THEN <<"'NoneType' object has no attribute 'get'">>
    ELSE IF g.type \notin GeometryTypes THEN <<"Unknown geometry type: ", g.type>>
    ELSE IF g.type = "LineString"
    THEN <<"LineStrings must have at least 2 coordinate tuples">>
    ELSE IF g.type = "Polygon"
    THEN <<"A linearring requires at least 4 coordinates">>
    ELSE <<"Point takes one coordinate tuple">>

shape(g) ==
    [type |-> g.type,
     coords |-> [i \in 1..Len(g.coordinates) |->
                    <<g.coordinates[i][1], g.coordinates[i][2], 1>>]]

IsEmpty(geom) == geom.coords = <<>>

\* __geo_interface__ / to_json of one geometry.
Mapping(geom) == [type |-> geom.type, coordinates |-> geom.coords]

FeatureCollection(geoms) ==
    [kind |-> "FeatureCollection",
     features |-> [i \in 1..Len(geoms) |-> Mapping(geoms[i])]]

(***************************************************************************)
(* Coordinate reference systems.  EPSG:3857 is modelled at two metres to   *)
(* the degree: to_crs scales every point, exactly, and raises on a frame   *)
(* that has no CRS.                                                        *)
(***************************************************************************)
GeoDataFrame(geoms, crs) == [geometry |-> geoms, crs |-> crs]

Reproject(p, from, to) ==
    IF from = to THEN p
    ELSE IF to = "EPSG:3857" THEN Norm(<<2 * p[1], 2 * p[2], p[3]>>)
    ELSE Norm(<<p[1], p[2], 2 * p[3]>>)

ToCrsRaises(gdf) == gdf.crs = "None"

ToCrsError ==
    <<"Cannot transform naive geometries.  Please set a crs on the object first.">>

to_crs(gdf, crs) ==
    [geometry |-> [i \in 1..Len(gdf.geometry) |->
                    [type |-> gdf.geometry[i].type,
                     coords |-> [k \in 1..Len(gdf.geometry[i].coords) |->
                                  Reproject(gdf.geometry[i].coords[k], gdf.crs, crs)]]],
     crs |-> crs]

(***************************************************************************)
(* Envelopes.  Comparisons of homogeneous points are by cross              *)
(* multiplication (every W is positive).                                   *)
(***************************************************************************)
LeqX(p, q) == p[1] * q[3] <= q[1] * p[3]
LeqY(p, q) == p[2] * q[3] <= q[2] * p[3]

\* A point of the set with the least (greatest) x or y.
MinX(ps) == CHOOSE p \in ps : \A q \in ps : LeqX(p, q)
MaxX(ps) == CHOOSE p \in ps : \A q \in ps : LeqX(q, p)
MinY(ps) == CHOOSE p \in ps : \A q \in ps : LeqY(p, q)
MaxY(ps) == CHOOSE p \in ps : \A q \in ps : LeqY(q, p)

Range(seq) == {seq[i] : i \in 1..Len(seq)}

\* <<minx, miny, maxx, maxy>>, each a rational <<num, den>>.
Bounds(ps) ==
    <<<<MinX(ps)[1], MinX(ps)[3]>>, <<MinY(ps)[2], MinY(ps)[3]>>,
      <<MaxX(ps)[1], MaxX(ps)[3]>>, <<MaxY(ps)[2], MaxY(ps)[3]>>>>

\* The point (x, y) of two rationals.
PointOf(x, y) == Norm(<<x[1] * y[2], y[1] * x[2], x[2] * y[2]>>)

RatAdd(x, n) == <<x[1] + n * x[2], x[2]>>

RatLess(x, y) == x[1] * y[2] < y[1] * x[2]

\* The rectangle ring of an envelope <<minx, miny, maxx, maxy>>.
RingOf(b) ==
    <<PointOf(b[1], b[2]), PointOf(b[3], b[2]), PointOf(b[3], b[4]),
      PointOf(b[1], b[4]), PointOf(b[1], b[2])>>

(***************************************************************************)
(* /api/health                                                             *)
(***************************************************************************)
health_check ==
    Response(200, "ok", <<"Python geospatial API is running">>, NoData)

(***************************************************************************)
(* /api/buffer                                                             *)
(***************************************************************************)
DefaultDistance == 100

\* data.get('distance', 100)
DistanceOf(req) ==
    IF req.distance.given THEN req.distance
    ELSE [given |-> FALSE, numeric |-> TRUE, value |-> DefaultDistance]

\* GeoSeries.buffer(distance), one geometry: all points within the distance.
\* The model keeps the envelope of the result (the round corners are not
\* represented); a result of no width or no height is the empty polygon.
Buffer(geom, distance) ==
    IF IsEmpty(geom) THEN [type |-> "Polygon", coords |-> <<>>]
    ELSE LET b == Bounds(Range(geom.coords))
             e == <<RatAdd(b[1], -distance), RatAdd(b[2], -distance),
                    RatAdd(b[3], distance), RatAdd(b[4], distance)>>
         IN  IF RatLess(e[1], e[3]) /\ RatLess(e[2], e[4])
             THEN [type |-> "Polygon", coords |-> RingOf(e)]
             ELSE [type |-> "Polygon", coords |-> <<>>]

buffer_body(req) ==
    IF JsonRaises(req.body) THEN Raise(JsonError(req.body))
    ELSE IF ShapeRaises(req.geometry) THEN Raise(ShapeError(req.geometry))
    ELSE LET distance == DistanceOf(req)
             geometry == shape(req.geometry)
             gdf == GeoDataFrame(<<geometry>>, "EPSG:4326")
             gdf_projected == to_crs(gdf, "EPSG:3857")
         IN  IF ~distance.numeric
             THEN Raise(<<"buffer distance must be a number">>)
             ELSE LET gdf_buffer ==
                        [i \in 1..Len(gdf_projected.geometry) |->
                            Buffer(gdf_projected.geometry[i], distance.value)]
                      gdf_buffer_wgs84 ==
                        to_crs(GeoDataFrame(gdf_buffer, "EPSG:3857"), "EPSG:4326")
                  IN  Success([kind |-> "buffer",
                               buffer |-> FeatureCollection(gdf_buffer_wgs84.geometry)])

buffer_geometry(req) == TryExcept(buffer_body(req))

Distances ==
    {[given |-> FALSE, numeric |-> TRUE, value |-> 0],
     [given |-> TRUE, numeric |-> TRUE, value |-> 0],
     [given |-> TRUE, numeric |-> TRUE, value |-> 3],
     [given |-> TRUE, numeric |-> FALSE, value |-> 0]}

BufferRequests ==
    [body : {"object"},
     geometry : {GeoPoint(1, 1), GeoRect(0, 0, 2, 1), EmptyPolygon, Missing,
                 [type |-> "Circle", coordinates |-> <<<<0, 0>>>>]},
     distance : Distances]
    \cup [body : {"null", "malformed"}, geometry : {Missing},
          distance : {[given |-> FALSE, numeric |-> TRUE, value |-> 0]}]

(***************************************************************************)
(* /api/simplify                                                           *)
(***************************************************************************)
\* 0.0001 as a rational.
DefaultTolerance == <<1, 10000>>

\* data.get('tolerance', 0.0001)
ToleranceOf(req) ==
    IF req.tolerance.given THEN req.tolerance.value ELSE DefaultTolerance

\* The squared distance of p from the segment a-b, a rational <<num, den>>.
SegDist2(p, a, b) ==
    LET dx == b[1] - a[1]
        dy == b[2] - a[2]
        len2 == dx * dx + dy * dy
        dot == (p[1] - a[1]) * dx + (p[2] - a[2]) * dy
        cross == (p[1] - a[1]) * dy - (p[2] - a[2]) * dx
    IN  IF dot <= 0
        THEN <<(p[1] - a[1]) * (p[1] - a[1]) + (p[2] - a[2]) * (p[2] - a[2]), 1>>
        ELSE IF dot >= len2
        THEN <<(p[1] - b[1]) * (p[1] - b[1]) + (p[2] - b[2]) * (p[2] - b[2]), 1>>
        ELSE <<cross * cross, len2>>

\* d2 <= tol^2, for d2 = <<n, m>> and tol = <<a, b>>: n * b^2 <= a^2 * m,
\* with the division taken first to keep the products small.
WithinTolerance(d2, tol) == d2[1] * tol[2] <= (tol[1] * tol[1] * d2[2]) \div tol[2]

\* Douglas-Peucker: the end points stay; the farthest point in between stays
\* (and splits the line) when it is farther than the tolerance.
RECURSIVE DouglasPeucker(_, _)
DouglasPeucker(cs, tol) ==
    IF Len(cs) <= 2 THEN cs
    ELSE LET a == cs[1]
             b == cs[Len(cs)]
             d2(i) == SegDist2(cs[i], a, b)
             far == CHOOSE i \in 2..(Len(cs) - 1) :
                        \A j \in 2..(Len(cs) - 1) : ~RatLess(d2(i), d2(j))
         IN  IF WithinTolerance(d2(far), tol) THEN <<a, b>>
             ELSE DouglasPeucker(SubSeq(cs, 1, far), tol)
                  \o Tail(DouglasPeucker(SubSeq(cs, far, Len(cs)), tol))

\* geometry.simplify(tolerance), which preserves topology: a ring is never
\* cut below four coordinates.
Simplify(geom, tol) ==
    LET cs == DouglasPeucker(geom.coords, tol)
    IN  IF geom.type = "Polygon" /\ Len(cs) < 4 THEN geom
        ELSE [type |-> geom.type, coords |-> cs]

simplify_body(req) ==
    IF JsonRaises(req.body) THEN Raise(JsonError(req.body))
    ELSE IF ShapeRaises(req.geometry) THEN Raise(ShapeError(req.geometry))
    ELSE IF ~req.tolerance.numeric
    THEN Raise(<<"tolerance must be a number">>)
    ELSE LET tolerance == ToleranceOf(req)
             geometry == shape(req.geometry)
             simplified == Simplify(geometry, tolerance)
         IN  Success([kind |-> "simplified",
                      simplified |-> FeatureCollection(<<simplified>>)])

simplify_geometry(req) == TryExcept(simplify_body(req))

Tolerances ==
    {[given |-> FALSE, numeric |-> TRUE, value |-> <<0, 1>>],
     [given |-> TRUE, numeric |-> TRUE, value |-> <<0, 1>>],
     [given |-> TRUE, numeric |-> TRUE, value |-> <<1, 1>>],
     [given |-> TRUE, numeric |-> FALSE, value |-> <<0, 1>>]}

SimplifyRequests ==
    [body : {"object"},
     geometry : {GeoPoint(1, 1),
                 GeoLine(<<<<0, 0>>, <<1, 0>>, <<2, 1>>, <<3, 0>>, <<4, 0>>>>),
                 GeoLine(<<<<0, 0>>, <<2, 3>>, <<4, 0>>>>),
                 GeoLine(<<<<0, 0>>>>),
                 GeoRect(0, 0, 2, 1), Missing},
     tolerance : Tolerances]
    \cup [body : {"null", "malformed"}, geometry : {Missing},
          tolerance : {[given |-> FALSE, numeric |-> TRUE, value |-> <<0, 1>>]}]

(***************************************************************************)
(* /api/intersection.  The geometries offered are points, axis-parallel    *)
(* segments and axis-parallel rectangles (and the empty polygon): each is  *)
(* the set of points of its envelope, so the predicates below are exact.   *)
(***************************************************************************)
RatMax(x, y) == IF RatLess(x, y) THEN y ELSE x
RatMin(x, y) == IF RatLess(x, y) THEN x ELSE y

\* The envelope common to two geometries: <<minx, miny, maxx, maxy>>.
Overlap(g1, g2) ==
    LET a == Bounds(Range(g1.coords))
        b == Bounds(Range(g2.coords))
    IN  <<RatMax(a[1], b[1]), RatMax(a[2], b[2]),
          RatMin(a[3], b[3]), RatMin(a[4], b[4])>>

\* geometry1.intersects(geometry2): they share a point.  An empty geometry
\* intersects nothing, itself included.
intersects(g1, g2) ==
    /\ ~IsEmpty(g1)
    /\ ~IsEmpty(g2)
    /\ ~RatLess(Overlap(g1, g2)[3], Overlap(g1, g2)[1])
    /\ ~RatLess(Overlap(g1, g2)[4], Overlap(g1, g2)[2])

\* geometry1.intersection(geometry2), of two that intersect: a polygon, a
\* segment or a point, by the dimension of what they share.
intersection(g1, g2) ==
    LET e == Overlap(g1, g2)
        wide == RatLess(e[1], e[3])
        high == RatLess(e[2], e[4])
    IN  IF wide /\ high THEN [type |-> "Polygon", coords |-> RingOf(e)]
        ELSE IF wide \/ high
        THEN [type |-> "LineString",
              coords |-> <<PointOf(e[1], e[2]), PointOf(e[3], e[4])>>]
        ELSE [type |-> "Point", coords |-> <<PointOf(e[1], e[2])>>]

NullIntersection == [kind |-> "null"]

\* A response whose flag is not the one of the branch taken.
IntersectionDataFlagLost(flag, payload) ==
    [kind |-> "intersection", intersects |-> FALSE, intersection |-> payload]

\* jsonify({"status": "success", "intersects": ..., "intersection": ...})
IntersectionData(flag, payload) ==
    [kind |-> "intersection", intersects |-> flag, intersection |-> payload]

find_intersection_body(req) ==
    IF JsonRaises(req.body) THEN Raise(JsonError(req.body))
    ELSE IF ShapeRaises(req.geometry1) THEN Raise(ShapeError(req.geometry1))
    ELSE IF ShapeRaises(req.geometry2) THEN Raise(ShapeError(req.geometry2))
    ELSE LET geometry1 == shape(req.geometry1)
             geometry2 == shape(req.geometry2)
         IN  IF intersects(geometry1, geometry2)
             THEN Success(IntersectionData(TRUE,
                    FeatureCollection(<<intersection(geometry1, geometry2)>>)))
             ELSE Success(IntersectionData(FALSE, NullIntersection))

find_intersection(req) == TryExcept(find_intersection_body(req))

BoxGeometries ==
    {GeoPoint(0, 0), GeoPoint(2, 2),
     GeoLine(<<<<0, 0>>, <<2, 0>>>>),
     GeoRect(0, 0, 2, 2), GeoRect(1, 1, 3, 3), GeoRect(2, 0, 4, 1),
     GeoRect(5, 5, 6, 6), EmptyPolygon}

IntersectionRequests ==
    [body : {"object"},
     geometry1 : BoxGeometries \cup {Missing},
     geometry2 : BoxGeometries \cup {[type |-> "Circle", coordinates |-> <<<<0, 0>>>>]}]
    \cup [body : {"null", "malformed"}, geometry1 : {Missing}, geometry2 : {Missing}]

(***************************************************************************)
(* /api/analyze                                                            *)
(***************************************************************************)
RatNorm(x) ==
    LET g == GCD(Abs(x[1]), Abs(x[2]))
        s == IF x[2] < 0 THEN -1 ELSE 1
    IN  <<(s * x[1]) \div g, (s * x[2]) \div g>>

RatPlus(x, y) == RatNorm(<<x[1] * y[2] + y[1] * x[2], x[2] * y[2]>>)

RECURSIVE RatSum(_)
RatSum(xs) == IF xs = <<>> THEN <<0, 1>> ELSE RatPlus(Head(xs), RatSum(Tail(xs)))

\* Series.mean(), min() and max() of a non-empty series of rationals.
RatMean(xs) == RatNorm(<<RatSum(xs)[1], RatSum(xs)[2] * Len(xs)>>)
RatLeast(xs) == CHOOSE x \in Range(xs) : \A y \in Range(xs) : ~RatLess(y, x)
RatGreatest(xs) == CHOOSE x \in Range(xs) : \A y \in Range(xs) : ~RatLess(x, y)

\* The area of a polygon: half the absolute shoelace sum of its ring.
Area(geom) ==
    LET cs == geom.coords
        term(i) == RatNorm(<<cs[i][1] * cs[i + 1][2] - cs[i + 1][1] * cs[i][2],
                             cs[i][3] * cs[i + 1][3]>>)
        twice == RatSum([i \in 1..(Len(cs) - 1) |-> term(i)])
    IN  IF cs = <<>> THEN <<0, 1>> ELSE RatNorm(<<Abs(twice[1]), 2 * twice[2]>>)

\* The length of a line of axis-parallel segments.
Length(geom) ==
    LET cs == geom.coords
        seg(i) == RatNorm(<<Abs(cs[i][1] * cs[i + 1][3] - cs[i + 1][1] * cs[i][3])
                            + Abs(cs[i][2] * cs[i + 1][3] - cs[i + 1][2] * cs[i][3]),
                            cs[i][3] * cs[i + 1][3]>>)
    IN  IF cs = <<>> THEN <<0, 1>>
        ELSE RatSum([i \in 1..(Len(cs) - 1) |-> seg(i)])

\* The subsequence of the geometries of the given type, in order.
RECURSIVE OfType(_, _)
OfType(geoms, type) ==
    IF geoms = <<>> THEN <<>>
    ELSE IF Head(geoms).type = type
         THEN <<Head(geoms)>> \o OfType(Tail(geoms), type)
         ELSE OfType(Tail(geoms), type)

\* The property names of the features, in order of first appearance.
RECURSIVE Columns(_, _)
Columns(features, seen) ==
    IF features = <<>> THEN seen
    ELSE Columns(Tail(features),
                 IF Head(features).property \in Range(seen) THEN seen
                 ELSE Append(seen, Head(features).property))

\* gpd.GeoDataFrame.from_features(features): the geometry column comes first,
\* and no crs is passed, so the frame has none.
from_features(features) ==
    [geometry |-> [i \in 1..Len(features) |-> shape(features[i].geometry)],
     columns |-> Columns(features, <<"geometry">>),
     crs |-> "None"]

\* gdf.geometry.type.value_counts().to_dict()
value_counts(geoms) ==
    [t \in {geoms[i].type : i \in 1..Len(geoms)} |->
        Cardinality({i \in 1..Len(geoms) : geoms[i].type = t})]

NoMeasure == [present |-> FALSE, total |-> <<0, 1>>, mean |-> <<0, 1>>,
              min |-> <<0, 1>>, max |-> <<0, 1>>]

Measure(xs) == [present |-> TRUE, total |-> RatSum(xs), mean |-> RatMean(xs),
                min |-> RatLeast(xs), max |-> RatGreatest(xs)]

AllCoords(geoms) == UNION {Range(geoms[i].coords) : i \in 1..Len(geoms)}

analyze_geojson_body(req) ==
    IF JsonRaises(req.body) THEN Raise(JsonError(req.body))
    ELSE IF ~req.has_geojson THEN Raise(<<"'NoneType' object is not subscriptable">>)
    ELSE IF \E i \in 1..Len(req.features) : ShapeRaises(req.features[i].geometry)
    THEN Raise(ShapeError(req.features[
            CHOOSE i \in 1..Len(req.features) :
                /\ ShapeRaises(req.features[i].geometry)
                /\ \A j \in 1..(i - 1) : ~ShapeRaises(req.features[j].geometry)].geometry))
    ELSE LET gdf == from_features(req.features)
             geometry_types == value_counts(gdf.geometry)
             has_polygons == "Polygon" \in DOMAIN geometry_types
             has_lines == "LineString" \in DOMAIN geometry_types
             stats == [feature_count |-> Len(gdf.geometry),
                       geometry_types |-> geometry_types,
                       properties |-> SubSeq(gdf.columns, 1, Len(gdf.columns) - 1),
                       bounds |-> Bounds(AllCoords(gdf.geometry))]
         IN  IF (has_polygons \/ has_lines) /\ ToCrsRaises(gdf)
             THEN Raise(ToCrsError)
             ELSE LET gdf_projected == to_crs(gdf, "EPSG:3857")
                      polygons == OfType(gdf_projected.geometry, "Polygon")
                      lines == OfType(gdf_projected.geometry, "LineString")
                      areas == [i \in 1..Len(polygons) |-> Area(polygons[i])]
                      lengths == [i \in 1..Len(lines) |-> Length(lines[i])]
                  IN  Success([kind |-> "statistics",
                               statistics |-> stats,
                               area |-> IF has_polygons THEN Measure(areas)
                                        ELSE NoMeasure,
                               length |-> IF has_lines THEN Measure(lengths)
                                          ELSE NoMeasure])

analyze_geojson(req) == TryExcept(analyze_geojson_body(req))

Feature(geometry, property) == [geometry |-> geometry, property |-> property]

Features ==
    {Feature(GeoPoint(1, 1), "name"),
     Feature(GeoLine(<<<<0, 0>>, <<2, 0>>>>), "name"),
     Feature(GeoRect(0, 0, 1, 1), "name"),
     Feature(GeoRect(0, 0, 2, 1), "use"),
     Feature(GeoRect(1, 1, 3, 3), "use")}

\* The sequences of distinct features, of one to n of them.
FeatureSeqs(n) ==
    {fs \in UNION {[1..k -> Features] : k \in 1..n} :
        \A i, j \in 1..Len(fs) : i # j => fs[i] # fs[j]}

AnalyzeRequests ==
    [body : {"object"}, has_geojson : {TRUE}, features : FeatureSeqs(MaxFeatures)]
    \cup [body : {"object"}, has_geojson : {TRUE},
          features : {<<Feature([type |-> "Circle", coordinates |-> <<<<0, 0>>>>], "name")>>}]
    \cup [body : Bodies, has_geojson : {FALSE}, features : {<<>>}]

(***************************************************************************)
(* /api/voronoi: scipy.spatial.Voronoi.  The sites are integer points (the *)
(* projected coordinates of integer degrees); a Voronoi vertex is the      *)
(* circumcentre of three sites whose circumcircle holds no site inside.    *)
(* Indices are those of TLA+ sequences (from 1); -1 is, as in scipy, the   *)
(* marker of a vertex at infinity.                                         *)
(***************************************************************************)
Orient(a, b, c) == (b[1] - a[1]) * (c[2] - a[2]) - (b[2] - a[2]) * (c[1] - a[1])

Sq(p) == p[1] * p[1] + p[2] * p[2]

Circumcentre(a, b, c) ==
    Norm(<<Sq(a) * (b[2] - c[2]) + Sq(b) * (c[2] - a[2]) + Sq(c) * (a[2] - b[2]),
           Sq(a) * (c[1] - b[1]) + Sq(b) * (a[1] - c[1]) + Sq(c) * (b[1] - a[1]),
           2 * Orient(a, b, c)>>)

\* p lies strictly inside the circle around u through a.
InCircle(u, a, p) ==
    u[3] * (Sq(p) - Sq(a)) < 2 * ((p[1] - a[1]) * u[1] + (p[2] - a[2]) * u[2])

\* Lexicographic order of homogeneous points.
LexLess(p, q) ==
    \/ p[1] * q[3] < q[1] * p[3]
    \/ p[1] * q[3] = q[1] * p[3] /\ p[2] * q[3] < q[2] * p[3]

RECURSIVE Sorted(_)
Sorted(ps) ==
    IF ps = {} THEN <<>>
    ELSE LET m == CHOOSE p \in ps : \A q \in ps \ {p} : LexLess(p, q)
         IN  <<m>> \o Sorted(ps \ {m})

IndexOf(seq, x) == CHOOSE i \in 1..Len(seq) : seq[i] = x

\* The site's cell is unbounded: the site lies on the boundary of the hull.
OnHull(sites, p) ==
    \E q \in sites \ {p} : \A r \in sites : Orient(p, q, r) >= 0

\* The Delaunay triples of the sites.
Delaunay(sites) ==
    {t \in SUBSET sites :
        /\ Cardinality(t) = 3
        /\ LET a == CHOOSE x \in t : TRUE
               b == CHOOSE x \in t \ {a} : TRUE
               c == CHOOSE x \in t \ {a, b} : TRUE
           IN  /\ Orient(a, b, c) # 0
               /\ \A p \in sites : ~InCircle(Circumcentre(a, b, c), a, p)}

CentreOf(t) ==
    LET a == CHOOSE x \in t : TRUE
        b == CHOOSE x \in t \ {a} : TRUE
        c == CHOOSE x \in t \ {a, b} : TRUE
    IN  Circumcentre(a, b, c)

\* Orientation of three homogeneous points.
OrientH(u, v, w) ==
    u[1] * (v[2] * w[3] - w[2] * v[3])
    - u[2] * (v[1] * w[3] - w[1] * v[3])
    + u[3] * (v[1] * w[2] - w[1] * v[2])

\* The vertices of a bounded cell in counter-clockwise order, from start.
RECURSIVE Around(_, _, _)
Around(cell, start, u) ==
    LET v == CHOOSE x \in cell \ {u} : \A w \in cell : OrientH(u, x, w) >= 0
    IN  IF v = start THEN <<u>> ELSE <<u>> \o Around(cell, start, v)

\* Voronoi(coords): the diagram, or a QhullError for fewer than three sites
\* or sites all on one line.
QhullRaises(coords) ==
    \/ Len(coords) < 3
    \/ \A i, j, k \in 1..Len(coords) : Orient(coords[i], coords[j], coords[k]) = 0

QhullError == <<"QH6214 qhull input error: not enough points to construct initial simplex">>

Voronoi(coords) ==
    LET sites == Range(coords)
        triples == Delaunay(sites)
        vertices == Sorted({CentreOf(t) : t \in triples})
        cell(p) == {CentreOf(t) : t \in {x \in triples : p \in x}}
        region(p) ==
            IF OnHull(sites, p)
            THEN <<-1>> \o [k \in 1..Cardinality(cell(p)) |->
                              IndexOf(vertices, Sorted(cell(p))[k])]
            ELSE LET first == Sorted(cell(p))[1]
                     ring == Around(cell(p), first, first)
                 IN  [k \in 1..Len(ring) |-> IndexOf(vertices, ring[k])]
        order == Sorted({<<q[1], q[2], 1>> : q \in sites})
    IN  [vertices |-> vertices,
         \* one region without vertices, then the sites' regions
         regions |-> <<<<>>>> \o [k \in 1..Len(order) |->
                                    region(<<order[k][1], order[k][2]>>)],
         point_region |-> [i \in 1..Len(coords) |->
                            1 + IndexOf(order, <<coords[i][1], coords[i][2], 1>>)]]

(***************************************************************************)
(* Clipping a convex ring to the boundary rectangle, one side at a time    *)
(* (polygon.intersection(boundary)).                                       *)
(***************************************************************************)
\* The side's linear form on a homogeneous point: positive inside.  k is the
\* coordinate (1: x, 2: y), c the bound (a rational), sign +1 for a lower
\* bound and -1 for an upper one.
SideForm(p, k, c, sign) == sign * (p[k] * c[2] - c[1] * p[3])

\* The point of the line through p and q on the side's line.
Crossing(p, q, k, c, sign) ==
    LET fp == SideForm(p, k, c, sign)
        fq == SideForm(q, k, c, sign)
    IN  Norm(<<fq * p[1] - fp * q[1], fq * p[2] - fp * q[2], fq * p[3] - fp * q[3]>>)

\* One pass of Sutherland-Hodgman over an open ring.
RECURSIVE ClipFrom(_, _, _, _, _)
ClipFrom(ring, i, k, c, sign) ==
    IF i > Len(ring) THEN <<>>
    ELSE LET cur == ring[i]
             nxt == ring[(i % Len(ring)) + 1]
             cin == SideForm(cur, k, c, sign) >= 0
             nin == SideForm(nxt, k, c, sign) >= 0
         IN  (IF cin THEN <<cur>> ELSE <<>>)
             \o (IF cin # nin /\ SideForm(cur, k, c, sign) # 0
                              /\ SideForm(nxt, k, c, sign) # 0
                 THEN <<Crossing(cur, nxt, k, c, sign)>> ELSE <<>>)
             \o ClipFrom(ring, i + 1, k, c, sign)

ClipSide(ring, k, c, sign) ==
    IF ring = <<>> THEN <<>> ELSE ClipFrom(ring, 1, k, c, sign)

\* The ring closed: its first point repeated at the end.
Close(ring) == IF ring = <<>> THEN <<>> ELSE Append(ring, ring[1])

\* b is <<minx, miny, maxx, maxy>>.
Clip(ring, b) ==
    Close(ClipSide(ClipSide(ClipSide(ClipSide(ring, 1, b[1], 1), 2, b[2], 1),
                            1, b[3], -1), 2, b[4], -1))

\* The boundary: the sites' extent, a fifth of it added on every side.
Margin(lo, hi) == <<RatNorm(<<6 * lo[1] * hi[2] - hi[1] * lo[2], 5 * lo[2] * hi[2]>>),
                    RatNorm(<<6 * hi[1] * lo[2] - lo[1] * hi[2], 5 * lo[2] * hi[2]>>)>>

Boundary(total_bounds) ==
    <<Margin(total_bounds[1], total_bounds[3])[1],
      Margin(total_bounds[2], total_bounds[4])[1],
      Margin(total_bounds[1], total_bounds[3])[2],
      Margin(total_bounds[2], total_bounds[4])[2]>>

\* ShapelyPolygon([vor.vertices[i] for i in region]): the inner i ranges over
\* the region's vertex indices; the enumerate index i of the point is not used.
RegionPolygonByPoint(vor, i, region) ==
    [k \in 1..Len(region) |-> vor.vertices[((i - 1) % Len(vor.vertices)) + 1]]

\* (a negative index counts from the end of vor.vertices, as Python's does)
RegionPolygon(vor, i, region) ==
    [k \in 1..Len(region) |->
        vor.vertices[IF region[k] < 0 THEN Len(vor.vertices) + 1 + region[k]
                     ELSE region[k]]]

\* A filter that forgets the marker of the vertex at infinity.
BoundedNoMarkerTest(region) == Len(region) > 0

\* if -1 not in region and len(region) > 0
Bounded(region) == -1 \notin Range(region) /\ Len(region) > 0

\* for i, region_idx in enumerate(vor.point_region): ...
RECURSIVE VoronoiPolygons(_, _, _)
VoronoiPolygons(vor, boundary, i) ==
    IF i > Len(vor.point_region) THEN <<>>
    ELSE LET region_idx == vor.point_region[i]
             region == vor.regions[region_idx]
         IN  (IF Bounded(region)
              THEN <<[type |-> "Polygon",
                      coords |-> Clip(RegionPolygon(vor, i, region), boundary)]>>
              ELSE <<>>)
             \o VoronoiPolygons(vor, boundary, i + 1)

create_voronoi_body(req) ==
    IF JsonRaises(req.body) THEN Raise(JsonError(req.body))
    ELSE IF ~req.has_points THEN Raise(<<"'NoneType' object is not iterable">>)
    ELSE LET geometries == [i \in 1..Len(req.points) |->
                              shape(GeoPoint(req.points[i][1], req.points[i][2]))]
             gdf == GeoDataFrame(geometries, "EPSG:4326")
             gdf_projected == to_crs(gdf, "EPSG:3857")
             coords == [i \in 1..Len(geometries) |->
                          <<gdf_projected.geometry[i].coords[1][1],
                            gdf_projected.geometry[i].coords[1][2]>>]
         IN  IF QhullRaises(coords) THEN Raise(QhullError)
             ELSE LET vor == Voronoi(coords)
                      boundary == Boundary(Bounds(AllCoords(gdf_projected.geometry)))
                      voronoi_polygons == VoronoiPolygons(vor, boundary, 1)
                      voronoi_gdf == to_crs(GeoDataFrame(voronoi_polygons, "EPSG:3857"),
                                            "EPSG:4326")
                  IN  Success([kind |-> "voronoi",
                               voronoi |-> FeatureCollection(voronoi_gdf.geometry)])

create_voronoi(req) == TryExcept(create_voronoi_body(req))

\* Points in degrees: the corners of a square, and a point inside it off the
\* diagonals' crossing.
LonLat == {<<0, 0>>, <<4, 0>>, <<0, 4>>, <<4, 4>>, <<1, 1>>}

\* The sequences of distinct points, of two to n of them.
PointSeqs(n) ==
    {ps \in UNION {[1..k -> LonLat] : k \in 2..n} :
        \A i, j \in 1..Len(ps) : i # j => ps[i] # ps[j]}

VoronoiRequests ==
    [body : {"object"}, has_points : {TRUE}, points : PointSeqs(MaxPoints)]
    \cup [body : Bodies, has_points : {FALSE}, points : {<<>>}]

(***************************************************************************)
(* The filesystem /api/convert works on.  A path is the sequence of its    *)
(* components below the root; the directories are /, /tmp and the          *)
(* temporary directories made so far.                                      *)
(***************************************************************************)
TempNames == <<"tmpa", "tmpb", "tmpc", "tmpd">>

TempRoot == <<"tmp">>

\* tempfile.mkdtemp(): a new directory under /tmp under a name not in use.
\* Which unused name it takes decides no branch of the handler; the model
\* takes the pool in order.
mkdtemp(ds) == TempNames[Cardinality(ds) + 1]

\* What the kernel makes of a path: ".." steps to the parent (the root is
\* its own parent).
RECURSIVE Resolve(_, _)
Resolve(done, rest) ==
    IF rest = <<>> THEN done
    ELSE IF Head(rest) = ".."
         THEN Resolve(IF done = <<>> THEN <<>>
                      ELSE SubSeq(done, 1, Len(done) - 1), Tail(rest))
         ELSE Resolve(Append(done, Head(rest)), Tail(rest))

\* os.path.join(temp_dir, file.filename): an absolute second argument
\* discards the first; an empty one leaves the directory with a trailing
\* separator.
PathJoin(dir, filename) ==
    IF filename.abs THEN filename.parts ELSE dir \o filename.parts

IsDir(p, ds) ==
    \/ p = <<>>
    \/ p = TempRoot
    \/ \E d \in ds : p = Append(TempRoot, d)

\* The path lies inside the temporary directory named d.
Inside(p, d) ==
    /\ Len(p) > Len(TempRoot) + 1
    /\ SubSeq(p, 1, Len(TempRoot) + 1) = Append(TempRoot, d)

Lookup(fs, p) == CHOOSE f \in fs : f.path = p

Exists(fs, p) == \E f \in fs : f.path = p

\* open(path, "wb") and write: creates or truncates the regular file.
WriteFile(fs, p, content) ==
    {f \in fs : f.path # p} \cup {[path |-> p, content |-> content]}

(***************************************************************************)
(* Uploads.  A filename is what the client put in the multipart header,    *)
(* unsanitised (file.filename); a content parses as a dataset or does not. *)
(***************************************************************************)
PlainName  == [abs |-> FALSE, parts |-> <<"data.geojson">>]
EmptyName  == [abs |-> FALSE, parts |-> <<>>]
AbsName    == [abs |-> TRUE,  parts |-> <<"tmp", "shared.geojson">>]
ParentName == [abs |-> FALSE, parts |-> <<"..", "up.geojson">>]

Filenames == {PlainName, EmptyName, AbsName, ParentName}

\* A dataset of two point features, and bytes no driver recognises.
Dataset == [parses |-> TRUE,  geoms |-> <<<<1, 2>>, <<3, 4>>>>]
Garbage == [parses |-> FALSE, geoms |-> <<>>]

Contents == {Dataset, Garbage}

Formats == {"geojson", "wkt", "shp"}

\* request.form.get('format', 'geojson')
FormatOf(req) == IF req.has_format THEN req.format ELSE "geojson"

ConvertRequests ==
    [has_file : {TRUE}, filename : Filenames, content : Contents,
     has_format : {TRUE}, format : Formats]
    \cup {[has_file |-> FALSE, filename |-> EmptyName, content |-> Garbage,
           has_format |-> hf, format |-> f] :
            hf \in {TRUE}, f \in Formats}
    \cup {[has_file |-> hfile, filename |-> PlainName, content |-> Dataset,
           has_format |-> FALSE, format |-> "geojson"] :
            hfile \in BOOLEAN}

\* gdf.to_json(): the feature collection, one point feature per geometry.
ToGeoJSON(geoms) ==
    [kind |-> "FeatureCollection",
     features |-> [i \in 1..Len(geoms) |->
                     [type |-> "Point", coordinates |-> geoms[i]]]]

\* gdf.geometry.to_wkt().tolist(): one well-known-text string per feature.
ToWKT(geoms) ==
    [kind |-> "wkt",
     features |-> [i \in 1..Len(geoms) |-> <<"POINT", geoms[i][1], geoms[i][2]>>]]

(***************************************************************************)
(* convert_format, one call at a time.  A request record carries the       *)
(* handler's locals; pc is the call it is about to make.                   *)
(***************************************************************************)
Idle ==
    [pc |-> "idle", req |-> [has_file |-> FALSE, filename |-> EmptyName,
                             content |-> Garbage, has_format |-> FALSE,
                             format |-> "geojson"],
     temp_dir |-> "", temp_file_path |-> <<>>, written |-> <<>>,
     did_read |-> FALSE, read_back |-> Garbage, gdf |-> Garbage,
     out |-> Raise(<<>>), resp |-> Response(0, "", <<>>, NoData)]

Arrive(req) == [Idle EXCEPT !.pc = "check_file", !.req = req]

\* The handler leaves with result r (through the except clause if r raised).
Leave(c, r) == [c EXCEPT !.pc = "done", !.out = r, !.resp = TryExcept(r)]

\* A handler that goes on to mkdtemp without looking for the file part.
CheckFileNoEarlyReturn(c) == [c EXCEPT !.pc = "mkdtemp"]

\* if 'file' not in request.files: return ..."No file provided"..., 400
CheckFile(c) ==
    IF ~c.req.has_file
    THEN Leave(c, Return(400, "error", <<"No file provided">>, NoData))
    ELSE [c EXCEPT !.pc = "mkdtemp"]

\* temp_dir = tempfile.mkdtemp()
\* temp_file_path = os.path.join(temp_dir, file.filename)
MakeTempDir(c, ds) ==
    LET d == mkdtemp(ds)
    IN  [c EXCEPT !.pc = "save", !.temp_dir = d,
                  !.temp_file_path = PathJoin(Append(TempRoot, d), c.req.filename)]

\* file.save(temp_file_path)
SaveRaises(c, ds) ==
    LET p == Resolve(<<>>, c.temp_file_path)
    IN  \/ IsDir(p, ds)
        \/ ~IsDir(SubSeq(p, 1, Len(p) - 1), ds)

SaveError(c, ds) ==
    LET p == Resolve(<<>>, c.temp_file_path)
    IN  IF IsDir(p, ds)
        THEN <<"[Errno 21] Is a directory">> \o c.temp_file_path
        ELSE <<"[Errno 2] No such file or directory">> \o c.temp_file_path

Save(c, ds) ==
    IF SaveRaises(c, ds)
    THEN Leave(c, Raise(SaveError(c, ds)))
    ELSE [c EXCEPT !.pc = "read_file",
                   !.written = Resolve(<<>>, c.temp_file_path)]

SaveFiles(c, ds, fs) ==
    IF SaveRaises(c, ds) THEN fs
    ELSE WriteFile(fs, Resolve(<<>>, c.temp_file_path), c.req.content)

\* gdf = gpd.read_file(temp_file_path)
ReadFile(c, fs) ==
    LET p == Resolve(<<>>, c.temp_file_path)
    IN  IF ~Exists(fs, p)
        THEN Leave(c, Raise(<<"No such file or directory">> \o c.temp_file_path))
        ELSE IF ~Lookup(fs, p).content.parses
        THEN Leave([c EXCEPT !.did_read = TRUE,
                             !.read_back = Lookup(fs, p).content],
                   Raise(<<"not recognized as a supported file format">>
                         \o c.temp_file_path))
        ELSE [c EXCEPT !.pc = "respond", !.did_read = TRUE,
                       !.read_back = Lookup(fs, p).content,
                       !.gdf = Lookup(fs, p).content]

UnsupportedFormat(output_format) ==
    Return(400, "error", <<"Unsupported output format: ", output_format>>, NoData)

\* A handler without the else branch: whatever is not "wkt" is GeoJSON.
RespondAnyFormat(c) ==
    IF FormatOf(c.req) = "wkt"
    THEN Leave(c, Success(ToWKT(c.gdf.geoms)))
    ELSE Leave(c, Success(ToGeoJSON(c.gdf.geoms)))

\* if output_format == 'geojson': ... elif output_format == 'wkt': ... else: ...
Respond(c) ==
    LET output_format == FormatOf(c.req)
    IN  IF output_format = "geojson"
        THEN Leave(c, Success(ToGeoJSON(c.gdf.geoms)))
        ELSE IF output_format = "wkt"
        THEN Leave(c, Success(ToWKT(c.gdf.geoms)))
        ELSE Leave(c, UnsupportedFormat(output_format))

\* One call of the handler: the request record after it.
ConvertStep(c, ds, fs) ==
    CASE c.pc = "check_file" -> CheckFile(c)
      [] c.pc = "mkdtemp"    -> MakeTempDir(c, ds)
      [] c.pc = "save"       -> Save(c, ds)
      [] c.pc = "read_file"  -> ReadFile(c, fs)
      [] c.pc = "respond"    -> Respond(c)
      [] OTHER               -> c

\* A handler that removes its directory before it answers.
StepDirsCleanup(c, ds) ==
    IF c.pc = "mkdtemp" THEN ds \cup {mkdtemp(ds)}
    ELSE IF c.pc = "respond" THEN ds \ {c.temp_dir}
    ELSE ds

\* ... and the directories and files after it.
StepDirs(c, ds) ==
    IF c.pc = "mkdtemp" THEN ds \cup {mkdtemp(ds)} ELSE ds

StepFiles(c, ds, fs) ==
    IF c.pc = "save" THEN SaveFiles(c, ds, fs) ELSE fs

\* convert_format from entry to return, with no other request in between.
RECURSIVE convert_format(_, _, _)
convert_format(c, ds, fs) ==
    IF c.pc = "done" THEN [c |-> c, dirs |-> ds, files |-> fs]
    ELSE convert_format(ConvertStep(c, ds, fs), StepDirs(c, ds),
                        StepFiles(c, ds, fs))


(***************************************************************************)
(* The state after construction: nothing served, /tmp empty.               *)
(***************************************************************************)
Slots == 1..MaxRequests

NoRequest ==
    [endpoint |-> "none", request |-> NoData, out |-> Raise(<<>>),
     resp |-> Response(0, "", <<>>, NoData)]

Init ==
    /\ last = NoRequest
    /\ dirs = {}
    /\ files = {}
    /\ conv = [i \in Slots |-> Idle]

(***************************************************************************)
(* Spec: the routes, one request at a time.  Each action is one handler    *)
(* from the request to its response.                                       *)
(***************************************************************************)
Served(endpoint, request, out, resp) ==
    [endpoint |-> endpoint, request |-> request, out |-> out, resp |-> resp]

GetHealth ==
    /\ last' = Served("health", NoData, Return(200, "ok", health_check.message, NoData),
                      health_check)
    /\ UNCHANGED <<dirs, files, conv>>

\* What each stateless route answers to each request offered to it.  The
\* handlers read nothing but the request, so the answers are fixed.
BufferServed ==
    {Served("buffer", req, buffer_body(req), buffer_geometry(req)) :
        req \in BufferRequests}

SimplifyServed ==
    {Served("simplify", req, simplify_body(req), simplify_geometry(req)) :
        req \in SimplifyRequests}

IntersectionServed ==
    {Served("intersection", req, find_intersection_body(req), find_intersection(req)) :
        req \in IntersectionRequests}

AnalyzeServed ==
    {Served("analyze", req, analyze_geojson_body(req), analyze_geojson(req)) :
        req \in AnalyzeRequests}

VoronoiServed ==
    {Served("voronoi", req, create_voronoi_body(req), create_voronoi(req)) :
        req \in VoronoiRequests}

PostBuffer ==
    /\ \E s \in BufferServed : last' = s
    /\ UNCHANGED <<dirs, files, conv>>

PostSimplify ==
    /\ \E s \in SimplifyServed : last' = s
    /\ UNCHANGED <<dirs, files, conv>>

PostIntersection ==
    /\ \E s \in IntersectionServed : last' = s
    /\ UNCHANGED <<dirs, files, conv>>

PostAnalyze ==
    /\ \E s \in AnalyzeServed : last' = s
    /\ UNCHANGED <<dirs, files, conv>>

PostVoronoi ==
    /\ \E s \in VoronoiServed : last' = s
    /\ UNCHANGED <<dirs, files, conv>>

PostConvert ==
    /\ \E req \in ConvertRequests :
         /\ req.has_file => Cardinality(dirs) < MaxRequests
         /\ LET r == convert_format(Arrive(req), dirs, files)
            IN  /\ last' = Served("convert", req, r.c.out, r.c.resp)
                /\ dirs' = r.dirs
                /\ files' = r.files
    /\ UNCHANGED conv

Next ==
    \/ GetHealth
    \/ PostBuffer
    \/ PostSimplify
    \/ PostIntersection
    \/ PostAnalyze
    \/ PostConvert
    \/ PostVoronoi

Spec == Init /\ [][Next]_vars

\* The routes that touch no file, on their own.
NextStateless ==
    \/ GetHealth
    \/ PostBuffer
    \/ PostSimplify
    \/ PostIntersection
    \/ PostAnalyze
    \/ PostVoronoi

SpecStateless == Init /\ [][NextStateless]_vars

(***************************************************************************)
(* SpecConvert: concurrent /api/convert requests.  Request i is the i-th   *)
(* to arrive; the runtime's workers interleave the handlers' calls.        *)
(***************************************************************************)
ConvertArrive(i) ==
    /\ conv[i].pc = "idle"
    /\ \A j \in Slots : j < i => conv[j].pc # "idle"
    /\ \E req \in ConvertRequests : conv' = [conv EXCEPT ![i] = Arrive(req)]
    /\ UNCHANGED <<last, dirs, files>>

ConvertCall(i, pc) ==
    /\ conv[i].pc = pc
    /\ conv' = [conv EXCEPT ![i] = ConvertStep(conv[i], dirs, files)]
    /\ dirs' = StepDirs(conv[i], dirs)
    /\ files' = StepFiles(conv[i], dirs, files)
    /\ UNCHANGED last

ConvertCheckFile(i) == ConvertCall(i, "check_file")
ConvertMakeTempDir(i) == ConvertCall(i, "mkdtemp")
ConvertSave(i) == ConvertCall(i, "save")
ConvertReadFile(i) == ConvertCall(i, "read_file")
ConvertRespond(i) == ConvertCall(i, "respond")

NextConvert ==
    \E i \in Slots :
        \/ ConvertArrive(i)
        \/ ConvertCheckFile(i)
        \/ ConvertMakeTempDir(i)
        \/ ConvertSave(i)
        \/ ConvertReadFile(i)
        \/ ConvertRespond(i)

SpecConvert == Init /\ [][NextConvert]_vars


(***************************************************************************)
(* Claims about the responses, under Spec and SpecStateless.               *)
(***************************************************************************)
\* C1: whatever a handler raises, the request gets HTTP 400 with status
\* "error" and the exception's text as message; and for every response of
\* every route the status is "error" exactly when the code is 400, the code
\* being 200 otherwise, with status "success" ("ok" for /api/health).
C1_ExceptionsBecome400 ==
    last.endpoint # "none" =>
        /\ last.resp.code \in {200, 400}
        /\ (last.resp.status = "error") <=> (last.resp.code = 400)
        /\ last.resp.code = 200 =>
              last.resp.status = (IF last.endpoint = "health" THEN "ok" ELSE "success")
        /\ last.out.raised =>
              last.resp = Response(400, "error", last.out.text, NoData)

C1_Witness ==
    /\ last.endpoint = "convert"
    /\ last.out.raised
    /\ last.resp.code = 400
    /\ last.resp.message = <<"[Errno 21] Is a directory", "tmp", "tmpb">>

\* The request is one /api/analyze reads without an exception before the
\* statistics: a JSON object whose features all have a geometry shape() takes.
WellFormedAnalyze(req) ==
    /\ req.body = "object"
    /\ req.has_geojson
    /\ \A i \in 1..Len(req.features) : ~ShapeRaises(req.features[i].geometry)

\* The rectangles among the features, and the area of one in square metres
\* (two metres to the degree), computed by hand from its corners.
PolygonsOf(req) ==
    OfType([i \in 1..Len(req.features) |->
              [type |-> req.features[i].geometry.type,
               coords |-> req.features[i].geometry.coordinates]], "Polygon")

KnownArea(p) ==
    <<4 * (p.coords[3][1] - p.coords[1][1]) * (p.coords[3][2] - p.coords[1][2]), 1>>

KnownAreas(req) == [i \in 1..Len(PolygonsOf(req)) |-> KnownArea(PolygonsOf(req)[i])]

\* C4 as stated: an /api/analyze request with at least one Polygon feature
\* gets status "success", and the area statistics are the sum, the mean, the
\* least and the greatest of the polygons' areas, other features left out.
C4_PolygonAreaStatistics ==
    (/\ last.endpoint = "analyze"
     /\ WellFormedAnalyze(last.request)
     /\ PolygonsOf(last.request) # <<>>)
        => /\ last.resp.status = "success"
           /\ last.resp.data.area = Measure(KnownAreas(last.request))

TwoValidGeometries(req) ==
    /\ req.body = "object"
    /\ ~ShapeRaises(req.geometry1)
    /\ ~ShapeRaises(req.geometry2)

FlagAndPayloadAgree(resp) ==
    /\ resp.status = "success"
    /\ resp.data.intersects \in BOOLEAN
    /\ (resp.data.intersects = FALSE) <=> (resp.data.intersection = NullIntersection)
    /\ resp.data.intersects =>
          /\ resp.data.intersection.kind = "FeatureCollection"
          /\ Len(resp.data.intersection.features) = 1

EqualToInput(resp, g) ==
    /\ resp.data.intersects
    /\ resp.data.intersection.features[1] = Mapping(shape(g))

\* C5 as stated: for two valid geometries the response is a success whose
\* flag and payload agree (false with null, true with a geometry), and two
\* identical geometries give true with an intersection equal to the input.
C5_IdenticalAlwaysIntersect ==
    (last.endpoint = "intersection" /\ TwoValidGeometries(last.request))
        => /\ FlagAndPayloadAgree(last.resp)
           /\ last.request.geometry1 = last.request.geometry2
                => EqualToInput(last.resp, last.request.geometry1)

\* C5 as amended: the same, the identical geometries being non-empty; the
\* empty geometry intersects nothing, itself included, and two empty
\* geometries give false with null.
C5_FlagAndPayloadAgree ==
    (last.endpoint = "intersection" /\ TwoValidGeometries(last.request))
        => /\ FlagAndPayloadAgree(last.resp)
           /\ last.request.geometry1 = last.request.geometry2
                => IF last.request.geometry1.coordinates = <<>>
                   THEN ~last.resp.data.intersects
                   ELSE EqualToInput(last.resp, last.request.geometry1)

C5_Witness ==
    /\ last.endpoint = "intersection"
    /\ last.request.geometry1 = GeoRect(0, 0, 2, 2)
    /\ last.request.geometry2 = GeoRect(0, 0, 2, 2)
    /\ last.resp.data.intersects
    /\ last.resp.data.intersection.features[1].type = "Polygon"

\* The request's points are the four corners of the square, in any order.
SquareRequest(req) ==
    /\ req.body = "object"
    /\ req.has_points
    /\ Len(req.points) = 4
    /\ Range(req.points) = {<<0, 0>>, <<4, 0>>, <<4, 4>>, <<0, 4>>}

\* C9 as stated: the four corners of a square get status "success" and
\* exactly four polygons.
C9_SquareGivesFourPolygons ==
    (last.endpoint = "voronoi" /\ SquareRequest(last.request))
        => /\ last.resp.status = "success"
           /\ Len(last.resp.data.voronoi.features) = 4

\* C9 as amended: the four corners of a square get status "success" and no
\* polygon at all: every one of the four cells is unbounded, its region holds
\* the marker -1, and the handler's filter drops it.
C9_SquareGivesNoPolygon ==
    (last.endpoint = "voronoi" /\ SquareRequest(last.request))
        => /\ last.resp.status = "success"
           /\ Len(last.resp.data.voronoi.features) = 0

C9_Witness ==
    /\ last.endpoint = "voronoi"
    /\ last.request.points = <<<<0, 0>>, <<4, 0>>, <<4, 4>>, <<0, 4>>>>
    /\ last.resp.status = "success"

\* The projected sites of a request, the diagram and the boundary, as the
\* handler has them.
SitesOf(req) == [i \in 1..Len(req.points) |-> <<2 * req.points[i][1], 2 * req.points[i][2]>>]

BoundaryOf(req) ==
    Boundary(Bounds({<<c[1], c[2], 1>> : c \in Range(SitesOf(req))}))

\* The points whose region is kept, in input order.
RECURSIVE KeptFrom(_, _)
KeptFrom(vor, i) ==
    IF i > Len(vor.point_region) THEN <<>>
    ELSE (IF -1 \notin Range(vor.regions[vor.point_region[i]])
             /\ vor.regions[vor.point_region[i]] # <<>>
          THEN <<i>> ELSE <<>>) \o KeptFrom(vor, i + 1)

\* The ring of the Voronoi vertices at the indices the point's region lists,
\* in the region's order, clipped and taken back to degrees.
ExpectedPolygon(vor, boundary, i) ==
    LET region == vor.regions[vor.point_region[i]]
        ring == Clip([k \in 1..Len(region) |-> vor.vertices[region[k]]], boundary)
    IN  [type |-> "Polygon",
         coordinates |-> [k \in 1..Len(ring) |-> Reproject(ring[k], "EPSG:3857", "EPSG:4326")]]

Reverse(seq) == [i \in 1..Len(seq) |-> seq[Len(seq) + 1 - i]]

PastMkdtemp(c) == c.pc \in {"save", "read_file", "respond", "done"}

PastSave(c) == c.pc \in {"read_file", "respond"} \/ (c.pc = "done" /\ c.written # <<>>)

Unsupported(c) == FormatOf(c.req) \notin {"geojson", "wkt"}

\* C2 as stated: every finished /api/convert request that carried a file part
\* and whose format is neither "geojson" nor "wkt" got HTTP 400 with the
\* message "Unsupported output format: <format>", whatever was uploaded.
C2_UnsupportedWhateverTheFile ==
    \A i \in Slots :
        (conv[i].pc = "done" /\ conv[i].req.has_file /\ Unsupported(conv[i]))
            => conv[i].resp = Response(400, "error",
                    <<"Unsupported output format: ", FormatOf(conv[i].req)>>, NoData)

\* C2 as amended: the same response, for the requests whose upload file.save
\* stored and gpd.read_file parsed; a request whose save or read raises gets
\* HTTP 400 with that exception's text instead.
C2_UnsupportedOnceParsed ==
    \A i \in Slots :
        (conv[i].pc = "done" /\ conv[i].req.has_file /\ Unsupported(conv[i]))
            => IF conv[i].did_read /\ conv[i].read_back.parses
               THEN conv[i].resp = Response(400, "error",
                        <<"Unsupported output format: ", FormatOf(conv[i].req)>>,
                        NoData)
               ELSE /\ conv[i].out.raised
                    /\ conv[i].resp = Response(400, "error", conv[i].out.text, NoData)

C2_Witness ==
    \E i, j \in Slots :
        /\ conv[i].pc = "done" /\ Unsupported(conv[i])
        /\ conv[i].did_read /\ conv[i].read_back.parses
        /\ conv[i].resp.message = <<"Unsupported output format: ", "shp">>
        /\ conv[j].pc = "done" /\ Unsupported(conv[j]) /\ conv[j].req.has_file
        /\ conv[j].out.raised

\* C3: a finished /api/convert request without a file part got HTTP 400 with
\* "No file provided" whatever its format parameter, and made no temporary
\* directory and wrote no file: the directories present are those of the
\* requests that carried a file part.
C3_NoFileProvided ==
    /\ \A i \in Slots :
         (conv[i].pc \notin {"idle", "check_file"} /\ ~conv[i].req.has_file)
            => /\ conv[i].pc = "done"
               /\ conv[i].resp = Response(400, "error", <<"No file provided">>, NoData)
               /\ conv[i].temp_dir = ""
               /\ conv[i].written = <<>>
    /\ Cardinality(dirs) <= Cardinality({i \in Slots : conv[i].req.has_file})
    /\ Cardinality(files) <= Cardinality({i \in Slots : conv[i].req.has_file})

C3_Witness ==
    \E i, j \in Slots :
        /\ conv[i].pc = "done" /\ ~conv[i].req.has_file
        /\ conv[i].req.has_format /\ conv[i].req.format = "shp"
        /\ conv[j].pc = "done" /\ ~conv[j].req.has_file /\ ~conv[j].req.has_format
        /\ dirs = {}

\* C6 as stated: whatever file.save has written lies inside the temporary
\* directory made for that request, and no file lies outside the temporary
\* directories.
C6_WrittenInsideTempDir ==
    /\ \A i \in Slots :
         (conv[i].written # <<>>) => Inside(conv[i].written, conv[i].temp_dir)
    /\ \A f \in files : \E d \in dirs : Inside(f.path, d)

\* C7 as stated: under any interleaving a request reads back the upload it
\* saved itself, so a successful response carries its own data.
C7_ReadsBackOwnUpload ==
    \A i \in Slots :
        conv[i].did_read
            => /\ conv[i].read_back = conv[i].req.content
               /\ (conv[i].pc = "done" /\ conv[i].resp.status = "success")
                    => conv[i].req.content.parses

\* The directories present are exactly those of the requests that carried a
\* file part and have called mkdtemp, one each.
C8_DirsOfRequests ==
    /\ dirs = {conv[i].temp_dir : i \in {j \in Slots : PastMkdtemp(conv[j]) /\ conv[j].req.has_file}}
    /\ Cardinality(dirs)
         = Cardinality({i \in Slots : PastMkdtemp(conv[i]) /\ conv[i].req.has_file})

\* C8: no exit path of the handler removes the temporary directory: at every
\* moment the directories present are exactly those of the requests that
\* carried a file part and have called mkdtemp, one each, and no step of any
\* request makes a directory disappear.
C8_TempDirsKept == []C8_DirsOfRequests /\ [][dirs \subseteq dirs']_vars

C8_Witness ==
    \E i, j \in Slots :
        /\ conv[i].pc = "done" /\ conv[i].resp.status = "success"
        /\ conv[j].pc = "done" /\ conv[j].out.raised /\ conv[j].temp_dir # ""
        /\ Cardinality(dirs) = 2


====
